---- MODULE Spec2Model ----
(***************************************************************************)
(* Model of weaving_sim.py: the sequence expander (thread_sequence and its *)
(* two wrappers), the colour utilities (_hex_to_rgb, _rgb_to_hex, shade),  *)
(* the pattern generator (make_pattern) and the dimension checks and       *)
(* drawing loop of render_weave.                                           *)
(*                                                                         *)
(* Every function of the module is pure, so each specification draws one   *)
(* call (function name and arguments) in its initial state and its actions *)
(* apply the function: pc goes from "call" to "done" and ret receives the  *)
(* outcome, a returned value or a raised exception.                        *)
(*                                                                         *)
(* Strings are sequences of one-character strings, so that strip, lower,   *)
(* slicing, parsing and formatting are computed, not assumed.              *)
(***************************************************************************)
EXTENDS Integers, Sequences, FiniteSets, TLC

VARIABLES fn, args, pc, ret, surface

vars == <<fn, args, pc, ret, surface>>

(***************************************************************************)
(* Outcomes of a call.                                                     *)
(***************************************************************************)
NoRet == [kind |-> "none"]

Ok(v) == [kind |-> "ok", val |-> v]

Raise(exc, msg) == [kind |-> exc, msg |-> msg]

Raised(r) == r.kind \notin {"none", "ok"}

(***************************************************************************)
(* Bounds of the sequence expander's inputs.                               *)
(***************************************************************************)
MaxRuns == 3

MaxRunLen == 2

MaxCount == 6

MaxNeg == 1

Values == {"X", "Y"}

(***************************************************************************)
(* thread_sequence (lines 20-50).                                          *)
(***************************************************************************)
Repeat(x, n) == [i \in 1..n |-> x]

\* ExtendRuns with the length check lost: a run of non-positive length
\* contributes nothing (as [color] * n does) and the loop goes on.
RECURSIVE ExtendRunsSkipBad(_, _)
ExtendRunsSkipBad(runs, seq) ==
    IF runs = <<>> THEN Ok(seq)
    ELSE ExtendRunsSkipBad(Tail(runs), seq \o Repeat(Head(runs)[1], Head(runs)[2]))

\* The for loop of lines 38-41: extends seq run by run and raises at the
\* first run whose length is not positive.
RECURSIVE ExtendRuns(_, _)
ExtendRuns(runs, seq) ==
    IF runs = <<>> THEN Ok(seq)
    ELSE IF Head(runs)[2] <= 0 THEN Raise("ValueError", "run lengths must be > 0")
    ELSE ExtendRuns(Tail(runs), seq \o Repeat(Head(runs)[1], Head(runs)[2]))

\* The while loop of lines 47-48.
RECURSIVE FillOut(_, _, _)
FillOut(out, seq, count) ==
    IF Len(out) < count THEN FillOut(out \o seq, seq, count) ELSE out

\* Prefix with the truncation lost: whole copies of seq are returned.
PrefixNoCut(s, n) == s

\* out[:count] of line 50, for count >= 0.
Prefix(s, n) == SubSeq(s, 1, IF n < Len(s) THEN n ELSE Len(s))

thread_sequence(runs, count) ==
    IF count <= 0 THEN Ok(<<>>)
    ELSE LET ext == ExtendRuns(runs, <<>>) IN
         IF Raised(ext) THEN ext
         ELSE IF ext.val = <<>> THEN Raise("ValueError", "runs must not be empty")
         ELSE Ok(Prefix(FillOut(<<>>, ext.val, count), count))

repeat_colors(colors, count) ==
    thread_sequence([i \in 1..Len(colors) |-> <<colors[i], 1>>], count)

block_repeat(color_a, color_b, block, count) ==
    thread_sequence(<<<<color_a, block>>, <<color_b, block>>>>, count)

(***************************************************************************)
(* Calls of the sequence expander.                                         *)
(***************************************************************************)
RunLens == (0 - MaxNeg)..MaxRunLen

Counts == (0 - MaxNeg)..MaxCount

InitSeq ==
    /\ \/ /\ fn = "thread_sequence"
          /\ \E n \in 0..MaxRuns : \E rs \in [1..n -> Values \X RunLens] :
                \E k \in Counts : args = [runs |-> rs, count |-> k]
       \/ /\ fn = "repeat_colors"
          /\ \E n \in 0..MaxRuns : \E cs \in [1..n -> Values] :
                \E k \in Counts : args = [colors |-> cs, count |-> k]
       \/ /\ fn = "block_repeat"
          /\ \E x \in Values, y \in Values, b \in RunLens, k \in Counts :
                args = [color_a |-> x, color_b |-> y, block |-> b, count |-> k]
    /\ pc = "call"
    /\ ret = NoRet
    /\ surface = <<>>

Return(r) ==
    /\ ret' = r
    /\ pc' = "done"
    /\ UNCHANGED <<fn, args, surface>>

ThreadSequence ==
    /\ pc = "call" /\ fn = "thread_sequence"
    /\ Return(thread_sequence(args.runs, args.count))

RepeatColors ==
    /\ pc = "call" /\ fn = "repeat_colors"
    /\ Return(repeat_colors(args.colors, args.count))

BlockRepeat ==
    /\ pc = "call" /\ fn = "block_repeat"
    /\ Return(block_repeat(args.color_a, args.color_b, args.block, args.count))

NextSeq == ThreadSequence \/ RepeatColors \/ BlockRepeat

SpecSeq == InitSeq /\ [][NextSeq]_vars

(***************************************************************************)
(* Claims about the sequence expander.                                     *)
(***************************************************************************)
RECURSIVE SumLens(_)
SumLens(runs) == IF runs = <<>> THEN 0 ELSE Head(runs)[2] + SumLens(Tail(runs))

\* Element j (0-based) of the base expansion: the value of the run that
\* covers position j when the runs are laid end to end.
BaseElem(runs, j) ==
    LET k == CHOOSE k \in 1..Len(runs) :
                 /\ SumLens(SubSeq(runs, 1, k - 1)) <= j
                 /\ j < SumLens(SubSeq(runs, 1, k))
    IN runs[k][1]

ValidRuns(runs) == runs # <<>> /\ \A i \in 1..Len(runs) : runs[i][2] > 0

\* What the claim says of a call of thread_sequence(runs, count) that
\* returned r.
CyclesBase(runs, count, r) ==
    /\ r.kind = "ok"
    /\ Len(r.val) = count
    /\ \A i \in 0..(count - 1) : r.val[i + 1] = BaseElem(runs, i % SumLens(runs))

\* C4: for non-empty runs of positive lengths and count > 0, thread_sequence
\* returns exactly count elements, element i being element (i mod base_length)
\* of the base expansion; repeat_colors and block_repeat satisfy the same for
\* the runs they build (unit runs of the colours; two runs of length block).
C4_ExpansionCycles ==
    pc = "done" =>
        /\ (fn = "thread_sequence" /\ ValidRuns(args.runs) /\ args.count > 0)
              => CyclesBase(args.runs, args.count, ret)
        /\ (fn = "repeat_colors" /\ args.colors # <<>> /\ args.count > 0)
              => /\ ret.kind = "ok"
                 /\ Len(ret.val) = args.count
                 /\ \A i \in 0..(args.count - 1) :
                        ret.val[i + 1] = args.colors[(i % Len(args.colors)) + 1]
        /\ (fn = "block_repeat" /\ args.block > 0 /\ args.count > 0)
              => /\ ret.kind = "ok"
                 /\ Len(ret.val) = args.count
                 /\ \A i \in 0..(args.count - 1) :
                        ret.val[i + 1] = IF i % (2 * args.block) < args.block
                                         THEN args.color_a ELSE args.color_b

\* A completed expansion of two runs of different values that wraps around
\* the base expansion and is cut in the middle of a copy.
C4_Witness ==
    /\ pc = "done" /\ fn = "thread_sequence"
    /\ Len(args.runs) = 2 /\ ValidRuns(args.runs)
    /\ args.runs[1][1] # args.runs[2][1]
    /\ args.count > SumLens(args.runs)
    /\ args.count % SumLens(args.runs) # 0
    /\ ret.kind = "ok"

\* C5: thread_sequence checks count, then the run lengths, then emptiness:
\* count <= 0 returns the empty list whatever the runs are; otherwise a run
\* of non-positive length at any position raises the run-length error and
\* nothing is returned; otherwise an empty run list raises a different error.
C5_CheckOrder ==
    (pc = "done" /\ fn = "thread_sequence") =>
        LET bad == \E i \in 1..Len(args.runs) : args.runs[i][2] <= 0 IN
        /\ args.count <= 0 => ret = Ok(<<>>)
        /\ (args.count > 0 /\ bad)
              => ret = Raise("ValueError", "run lengths must be > 0")
        /\ (args.count > 0 /\ ~bad /\ args.runs = <<>>)
              => /\ ret = Raise("ValueError", "runs must not be empty")
                 /\ ret.msg # "run lengths must be > 0"

\* A failed call whose last run is bad although the runs before it already
\* supply count elements.
C5_Witness ==
    /\ pc = "done" /\ fn = "thread_sequence"
    /\ Len(args.runs) >= 2
    /\ args.runs[Len(args.runs)][2] <= 0
    /\ ValidRuns(SubSeq(args.runs, 1, Len(args.runs) - 1))
    /\ SumLens(SubSeq(args.runs, 1, Len(args.runs) - 1)) >= args.count
    /\ args.count > 0
    /\ Raised(ret)

(***************************************************************************)
(* Strings and numbers of the colour utilities.  A number is a pair        *)
(* <<n, d>> standing for the rational n/d, d > 0; the factors and channel  *)
(* values drawn below are dyadic, so Python's float arithmetic on them is  *)
(* exact.                                                                  *)
(***************************************************************************)
LowerHex == <<"0", "1", "2", "3", "4", "5", "6", "7", "8", "9", "a", "b", "c", "d", "e", "f">>

UpperHex == <<"0", "1", "2", "3", "4", "5", "6", "7", "8", "9", "A", "B", "C", "D", "E", "F">>

IsHexDigit(ch) == \E i \in 1..Len(LowerHex) : ch = LowerHex[i] \/ ch = UpperHex[i]

HexVal(ch) == (CHOOSE i \in 1..Len(LowerHex) : ch = LowerHex[i] \/ ch = UpperHex[i]) - 1

IsSpace(ch) == ch \in {" ", "\t", "\n"}

RECURSIVE LStrip(_)
LStrip(s) == IF s # <<>> /\ IsSpace(Head(s)) THEN LStrip(Tail(s)) ELSE s

RECURSIVE RStrip(_)
RStrip(s) ==
    IF s # <<>> /\ IsSpace(s[Len(s)]) THEN RStrip(SubSeq(s, 1, Len(s) - 1)) ELSE s

\* str.strip()
Strip(s) == RStrip(LStrip(s))

\* The digits of an integer literal: hex digits, single underscores allowed
\* between two digits (and right after a base prefix).
DigitsOk(t, afterPrefix) ==
    /\ t # <<>>
    /\ \A i \in 1..Len(t) : IsHexDigit(t[i]) \/ t[i] = "_"
    /\ t[Len(t)] # "_"
    /\ (t[1] = "_" => afterPrefix)
    /\ \A i \in 1..(Len(t) - 1) : ~(t[i] = "_" /\ t[i + 1] = "_")

RECURSIVE DigitsVal(_, _)
DigitsVal(t, acc) ==
    IF t = <<>> THEN acc
    ELSE IF Head(t) = "_" THEN DigitsVal(Tail(t), acc)
    ELSE DigitsVal(Tail(t), 16 * acc + HexVal(Head(t)))

\* int(x, 16): surrounding whitespace is dropped, then an optional sign, then
\* an optional 0x prefix, then the digits.
PyInt16(x) ==
    LET t0 == Strip(x)
        signed == t0 # <<>> /\ t0[1] \in {"+", "-"}
        t1 == IF signed THEN Tail(t0) ELSE t0
        prefixed == Len(t1) >= 2 /\ t1[1] = "0" /\ t1[2] \in {"x", "X"}
        t2 == IF prefixed THEN SubSeq(t1, 3, Len(t1)) ELSE t1
    IN IF DigitsOk(t2, prefixed)
       THEN Ok(IF signed /\ t0[1] = "-" THEN 0 - DigitsVal(t2, 0) ELSE DigitsVal(t2, 0))
       ELSE Raise("ValueError", "invalid literal for int() with base 16")

\* _hex_to_rgb (lines 61-67)
hex_to_rgb(h) ==
    LET s0 == Strip(h)
        s == IF s0 # <<>> /\ s0[1] = "#" THEN Tail(s0) ELSE s0
    IN IF Len(s) # 6 THEN Raise("ValueError", "Expected hex color like #RRGGBB")
       ELSE LET r == PyInt16(SubSeq(s, 1, 2))
                g == PyInt16(SubSeq(s, 3, 4))
                b == PyInt16(SubSeq(s, 5, 6))
            IN IF Raised(r) THEN r
               ELSE IF Raised(g) THEN g
               ELSE IF Raised(b) THEN b
               ELSE Ok(<<r.val, g.val, b.val>>)

\* PyRound rounding halves up instead of to even.
PyRoundHalfUp(x) ==
    LET q == x[1] \div x[2]
        m == x[1] % x[2]
    IN IF 2 * m < x[2] THEN q ELSE q + 1

\* round(x) of a float: nearest integer, halves to the even neighbour.
PyRound(x) ==
    LET q == x[1] \div x[2]
        m == x[1] % x[2]
    IN IF 2 * m < x[2] THEN q
       ELSE IF 2 * m > x[2] THEN q + 1
       ELSE IF q % 2 = 0 THEN q ELSE q + 1

Min2(a, b) == IF a < b THEN a ELSE b

Max2(a, b) == IF a > b THEN a ELSE b

\* max(0, min(255, int(round(v)))) of lines 71-73
Channel(v) == Max2(0, Min2(255, PyRound(v)))

\* f"{n:02x}" for n in 0..255
Hex02(n) == <<LowerHex[(n \div 16) + 1], LowerHex[(n % 16) + 1]>>

\* _rgb_to_hex (lines 70-74)
rgb_to_hex(r, g, b) == <<"#">> \o Hex02(Channel(r)) \o Hex02(Channel(g)) \o Hex02(Channel(b))

\* Blend with k = factor instead of k = factor - 1.0 when lightening.
BlendNoOffset(c, factor) ==
    IF factor[1] >= factor[2]
    THEN <<c * factor[2] + (255 - c) * factor[1], factor[2]>>
    ELSE <<c * factor[1], factor[2]>>

\* One channel of shade (lines 83-91): c + (255 - c) * (factor - 1.0) when
\* factor >= 1.0, c * factor otherwise, for the factor factor[1]/factor[2].
Blend(c, factor) ==
    IF factor[1] >= factor[2]
    THEN <<c * factor[2] + (255 - c) * (factor[1] - factor[2]), factor[2]>>
    ELSE <<c * factor[1], factor[2]>>

\* shade (lines 77-92)
shade(color_hex, factor) ==
    LET rgb == hex_to_rgb(color_hex) IN
    IF Raised(rgb) THEN rgb
    ELSE Ok(rgb_to_hex(Blend(rgb.val[1], factor),
                       Blend(rgb.val[2], factor),
                       Blend(rgb.val[3], factor)))

(***************************************************************************)
(* Calls of the colour utilities.                                          *)
(***************************************************************************)
MaxHexLen == 7

MaxOverflow == 3

HexAlphabet == {"a", "g", "-", " ", "#"}

\* Spellings of colours handed to shade: an optional marker and six
\* characters, hex digits of both cases and the sign.
ShadeAlphabet == {"0", "c", "F", "-"}

ShadeColors ==
    {p \o d : p \in {<<>>, <<"#">>, <<" ", "#">>}, d \in [1..6 -> ShadeAlphabet]}

LowerHexDigits == {LowerHex[i] : i \in 1..Len(LowerHex)}

\* Colours in the spelling _rgb_to_hex produces: every value of the first
\* channel, a few of the other two.
CanonicalColors ==
    {<<"#">> \o rr \o gb : rr \in [1..2 -> LowerHexDigits], gb \in [1..4 -> {"0", "e"}]}

Factors == {<<0, 1>>, <<1, 2>>, <<3, 4>>, <<1, 1>>, <<5, 4>>, <<3, 2>>, <<5, 2>>}

\* Every multiple of 1/4 from below 0 to above 255.
Quarters == {<<n, 4>> : n \in (0 - 4 * MaxOverflow)..(4 * (255 + MaxOverflow))}

Samples == {<<0 - 7, 2>>, <<1, 2>>, <<3, 2>>, <<5, 2>>, <<509, 2>>, <<511, 2>>, <<999, 1>>}

InitColor ==
    /\ \/ /\ fn = "hex_to_rgb"
          /\ \E k \in 0..MaxHexLen : \E h \in [1..k -> HexAlphabet] : args = [h |-> h]
       \/ /\ fn = "hex_to_rgb"
          /\ \E h \in ShadeColors : args = [h |-> h]
       \/ /\ fn = "rgb_to_hex"
          /\ \E r \in Quarters, g \in Samples, b \in Samples :
                args = [r |-> r, g |-> g, b |-> b]
       \/ /\ fn = "shade"
          /\ \E c \in ShadeColors, k \in Factors : args = [color_hex |-> c, factor |-> k]
       \/ /\ fn = "shade"
          /\ \E c \in CanonicalColors, k \in Factors : args = [color_hex |-> c, factor |-> k]
    /\ pc = "call"
    /\ ret = NoRet
    /\ surface = <<>>

HexToRgb ==
    /\ pc = "call" /\ fn = "hex_to_rgb"
    /\ Return(hex_to_rgb(args.h))

RgbToHex ==
    /\ pc = "call" /\ fn = "rgb_to_hex"
    /\ Return(Ok(rgb_to_hex(args.r, args.g, args.b)))

Shade ==
    /\ pc = "call" /\ fn = "shade"
    /\ Return(shade(args.color_hex, args.factor))

NextColor == HexToRgb \/ RgbToHex \/ Shade

SpecColor == InitColor /\ [][NextColor]_vars

(***************************************************************************)
(* Claims about the colour utilities.                                      *)
(***************************************************************************)
Byte == 0..255

\* h without surrounding whitespace and without one leading marker.
Unmarked(h) ==
    LET s0 == Strip(h) IN IF s0 # <<>> /\ s0[1] = "#" THEN Tail(s0) ELSE s0

AllHex(s) == \A i \in 1..Len(s) : IsHexDigit(s[i])

\* C6: _hex_to_rgb returns three integers in [0,255] or fails with an
\* invalid-argument error, and it fails whenever what is left after stripping
\* whitespace and one leading '#' is not 6 characters long or holds a
\* character that is not a hexadecimal digit.
C6_RejectsNonHex ==
    (pc = "done" /\ fn = "hex_to_rgb") =>
        /\ \/ ret.kind = "ValueError"
           \/ /\ ret.kind = "ok"
              /\ \A i \in 1..3 : ret.val[i] \in Byte
        /\ (Len(Unmarked(args.h)) # 6 \/ ~AllHex(Unmarked(args.h)))
              => ret.kind = "ValueError"

\* C7 as stated: shade(color, 1.0) equals color for every string that
\* _hex_to_rgb accepts, six hex digits with or without the leading '#'.
C7_ShadeIdentityAnySpelling ==
    (pc = "done" /\ fn = "shade" /\ args.factor = <<1, 1>>
        /\ ~Raised(hex_to_rgb(args.color_hex))
        /\ Len(Unmarked(args.color_hex)) = 6 /\ AllHex(Unmarked(args.color_hex)))
        => ret = Ok(args.color_hex)

IsCanonical(c) ==
    /\ Len(c) = 7
    /\ c[1] = "#"
    /\ \A i \in 2..7 : c[i] \in LowerHexDigits

\* C7 amended: shade(color, 1.0) equals color for every colour spelled '#'
\* and six lowercase hex digits; for every other spelling of six hex digits
\* (no marker, uppercase, surrounding whitespace) it returns the canonical
\* spelling of the same three channels.
C7_ShadeIdentityCanonical ==
    (pc = "done" /\ fn = "shade" /\ args.factor = <<1, 1>>) =>
        /\ IsCanonical(args.color_hex) => ret = Ok(args.color_hex)
        /\ (Len(Unmarked(args.color_hex)) = 6 /\ AllHex(Unmarked(args.color_hex)))
              => /\ ret.kind = "ok"
                 /\ IsCanonical(ret.val)
                 /\ hex_to_rgb(ret.val) = hex_to_rgb(args.color_hex)

\* A canonical colour with a letter digit shaded by 1.0.
C7_Witness ==
    /\ pc = "done" /\ fn = "shade" /\ args.factor = <<1, 1>>
    /\ IsCanonical(args.color_hex)
    /\ \E i \in 2..7 : args.color_hex[i] \in {"a", "b", "c", "d", "e", "f"}
    /\ ret.kind = "ok"

Abs(n) == IF n < 0 THEN 0 - n ELSE n

ClampRat(x) ==
    IF x[1] < 0 THEN <<0, 1>> ELSE IF x[1] > 255 * x[2] THEN <<255, 1>> ELSE x

\* The integer nearest to x, the even one of two equally near.
NearestTiesEven(x) ==
    CHOOSE k \in Byte :
        /\ 2 * Abs(x[1] - k * x[2]) <= x[2]
        /\ (2 * Abs(x[1] - k * x[2]) = x[2] => k % 2 = 0)

UpperLetters == <<"A", "B", "C", "D", "E", "F", "G", "H", "I", "J", "K", "L", "M",
                  "N", "O", "P", "Q", "R", "S", "T", "U", "V", "W", "X", "Y", "Z">>

LowerLetters == <<"a", "b", "c", "d", "e", "f", "g", "h", "i", "j", "k", "l", "m",
                  "n", "o", "p", "q", "r", "s", "t", "u", "v", "w", "x", "y", "z">>

LowerChar(ch) ==
    IF \E i \in 1..Len(UpperLetters) : UpperLetters[i] = ch
    THEN LowerLetters[CHOOSE i \in 1..Len(UpperLetters) : UpperLetters[i] = ch]
    ELSE ch

\* str.lower()
Lower(s) == [i \in 1..Len(s) |-> LowerChar(s[i])]

\* max(1, int(pcfg.weave_over)), max(1, int(pcfg.weave_under)) (lines 113-114)
NormCount(n) == Max2(1, n)

\* NormStep without the replacement of 0.
NormStepKeepZero(step) == step

\* lines 116-118
NormStep(step) == IF step = 0 THEN 1 ELSE step

\* lines 120-122
NormBroken(broken) == IF broken # <<>> /\ broken[1] <= 0 THEN <<>> ELSE broken

\* line 123
NormAxes(axes) == Strip(Lower(axes))

\* Truth value of an Optional[int]: None and 0 are false.
Truthy(broken) == broken # <<>> /\ broken[1] # 0

\* PyMod truncating toward zero, as the remainder of C does.
TruncMod(a, b) == IF a >= 0 THEN a % b ELSE 0 - ((0 - a) % b)

\* Python's % for a positive modulus: floored, the result is in 0..b-1.
PyMod(a, b) == a % b

\* Python's // for a positive divisor and i >= 0.
FloorDiv(a, b) == a \div b

\* AxisDir that never flips.
AxisDirForward(i, broken, axes, selectors) == 1

\* dir_r (lines 127-129) and dir_c (lines 133-135) for the index i of the axis
\* and the selectors that switch the axis on.
AxisDir(i, broken, axes, selectors) ==
    IF Truthy(broken) /\ axes \in selectors
    THEN (IF FloorDiv(i, broken[1]) % 2 = 0 THEN 1 ELSE 0 - 1)
    ELSE 1

RowSelectors == {<<"r", "o", "w", "s">>, <<"b", "o", "t", "h">>}

ColSelectors == {<<"c", "o", "l", "s">>, <<"b", "o", "t", "h">>}

\* CellValue with <= for <.
CellValueOffByOne(r, c, over, period, step, broken, axes) ==
    LET direction == AxisDir(r, broken, axes, RowSelectors)
                     * AxisDir(c, broken, axes, ColSelectors)
    IN PyMod(c - direction * r * step, period) <= over

\* The body of the inner loop (lines 133-139) for the 0-based cell (r, c).
CellValue(r, c, over, period, step, broken, axes) ==
    LET direction == AxisDir(r, broken, axes, RowSelectors)
                     * AxisDir(c, broken, axes, ColSelectors)
        phase == PyMod(c - direction * r * step, period)
    IN phase < over

make_pattern(rows, cols, pcfg) ==
    LET over == NormCount(pcfg.weave_over)
        under == NormCount(pcfg.weave_under)
        period == over + under
        step == NormStep(pcfg.weave_step)
        broken == NormBroken(pcfg.broken_block)
        axes == NormAxes(pcfg.broken_axes)
    IN [r \in 1..rows |->
          [c \in 1..cols |-> CellValue(r - 1, c - 1, over, period, step, broken, axes)]]

(***************************************************************************)
(* Calls of the pattern generator.                                         *)
(***************************************************************************)
MaxRows == 4

MaxCols == 5

MaxOver == 3

MaxUnder == 2

MaxStep == 2

MaxBlock == 2

AxesInputs ==
    {<<"r", "o", "w", "s">>, <<"c", "o", "l", "s">>, <<"b", "o", "t", "h">>,
     <<" ", "B", "o", "t", "h", " ">>, <<"n", "o", "n", "e">>}

OverInputs == (0 - 1)..MaxOver

UnderInputs == (0 - 1)..MaxUnder

StepInputs == (0 - MaxStep)..MaxStep

BlockInputs == {<<>>} \cup {<<b>> : b \in (0 - 1)..MaxBlock}

InitPattern ==
    /\ fn = "make_pattern"
    /\ \E rows \in 0..MaxRows, cols \in 0..MaxCols :
         \E o \in OverInputs, u \in UnderInputs, st \in StepInputs :
           \E bb \in BlockInputs, ax \in AxesInputs :
              args = [rows |-> rows, cols |-> cols,
                      pcfg |-> [weave_over |-> o, weave_under |-> u, weave_step |-> st,
                                broken_block |-> bb, broken_axes |-> ax]]
    /\ pc = "call"
    /\ ret = NoRet
    /\ surface = <<>>

MakePattern ==
    /\ pc = "call" /\ fn = "make_pattern"
    /\ Return(Ok(make_pattern(args.rows, args.cols, args.pcfg)))

NextPattern == MakePattern

SpecPattern == InitPattern /\ [][NextPattern]_vars

(***************************************************************************)
(* Claims about the pattern generator.                                     *)
(***************************************************************************)
Both == <<"b", "o", "t", "h">>

\* The normalized parameters as the specification words them.
OverOf(pcfg) == IF pcfg.weave_over < 1 THEN 1 ELSE pcfg.weave_over

UnderOf(pcfg) == IF pcfg.weave_under < 1 THEN 1 ELSE pcfg.weave_under

PeriodOf(pcfg) == OverOf(pcfg) + UnderOf(pcfg)

StepOf(pcfg) == IF pcfg.weave_step = 0 THEN 1 ELSE pcfg.weave_step

Enabled(pcfg) == pcfg.broken_block # <<>> /\ pcfg.broken_block[1] > 0

\* The residue of x modulo m in 0..m-1: x moved by multiples of m into
\* the range.
RECURSIVE Residue(_, _)
Residue(x, m) ==
    IF x < 0 THEN Residue(x + m, m)
    ELSE IF x >= m THEN Residue(x - m, m)
    ELSE x

\* Whether i lies in an odd block of size b (i div b is odd).
OddBlock(i, b) == \E q \in 0..i : q * b <= i /\ i < (q + 1) * b /\ q % 2 = 1

DirOf(pcfg, i, selectors) ==
    IF Enabled(pcfg) /\ NormAxes(pcfg.broken_axes) \in selectors
                     /\ OddBlock(i, pcfg.broken_block[1])
    THEN 0 - 1 ELSE 1

\* C1: make_pattern returns exactly rows rows of cols booleans, the value at
\* (r, c) being ((c - direction * r * step) mod period) < over with the
\* normalized over, under and step, the floored modulo, and direction the
\* product of the row and column directions, each -1 exactly when broken twill
\* is enabled, the axis is selected and the index lies in an odd block.
C1_CellFormula ==
    (pc = "done" /\ fn = "make_pattern") =>
        /\ ret.kind = "ok"
        /\ Len(ret.val) = args.rows
        /\ \A r \in 0..(args.rows - 1) :
              /\ Len(ret.val[r + 1]) = args.cols
              /\ \A c \in 0..(args.cols - 1) :
                    LET direction == DirOf(args.pcfg, r, RowSelectors)
                                     * DirOf(args.pcfg, c, ColSelectors)
                        phase == Residue(c - direction * r * StepOf(args.pcfg),
                                         PeriodOf(args.pcfg))
                    IN /\ ret.val[r + 1][c + 1] \in BOOLEAN
                       /\ ret.val[r + 1][c + 1] = (phase < OverOf(args.pcfg))

\* A generated matrix with a cell whose dividend c - direction*r*step is
\* negative and a cell whose direction is flipped.
C1_Witness ==
    /\ pc = "done" /\ fn = "make_pattern"
    /\ args.rows > 2 /\ args.cols > 2
    /\ Enabled(args.pcfg)
    /\ \E r \in 0..(args.rows - 1), c \in 0..(args.cols - 1) :
          /\ DirOf(args.pcfg, r, RowSelectors) * DirOf(args.pcfg, c, ColSelectors) = 1
          /\ c - r * StepOf(args.pcfg) < 0
    /\ \E r \in 1..(args.rows - 1), c \in 0..(args.cols - 1) :
          DirOf(args.pcfg, r, RowSelectors) * DirOf(args.pcfg, c, ColSelectors) = 0 - 1
    /\ ret.kind = "ok"

\* The inputs that normalize to the same value as the given one.
SameCount(n) == IF n < 1 THEN {m \in OverInputs : m < 1} \cup {1} ELSE {n}

SameStep(st) == IF st \in {0, 1} THEN {0, 1} ELSE {st}

SameBlock(pcfg) ==
    IF Enabled(pcfg) THEN {pcfg.broken_block}
    ELSE {bb \in BlockInputs : bb = <<>> \/ bb[1] <= 0}

SameAxes(pcfg) ==
    IF Enabled(pcfg)
    THEN {ax \in AxesInputs : NormAxes(ax) = NormAxes(pcfg.broken_axes)}
    ELSE AxesInputs

\* The configs that differ from pcfg in one field, by a value that
\* normalizes to the same thing.  Every config drawn is checked against
\* these, so configs differing in several fields agree by chaining.
SameConfigs(pcfg) ==
    {[pcfg EXCEPT !.weave_over = o] : o \in SameCount(pcfg.weave_over)}
    \cup {[pcfg EXCEPT !.weave_under = u] : u \in SameCount(pcfg.weave_under)}
    \cup {[pcfg EXCEPT !.weave_step = st] : st \in SameStep(pcfg.weave_step)}
    \cup {[pcfg EXCEPT !.broken_block = bb] : bb \in SameBlock(pcfg)}
    \cup {[pcfg EXCEPT !.broken_axes = ax] : ax \in SameAxes(pcfg)}

\* C2: make_pattern depends on its config only through the normalized
\* parameters: every config that differs from the given one only in values
\* that normalize to the same thing gives the same matrix; weave_step 0 gives
\* the matrix of weave_step 1, and broken_block None, 0 or negative gives the
\* matrix of broken twill disabled, whatever the axes selector.
C2_NormalizedOnly ==
    (pc = "done" /\ fn = "make_pattern") =>
        \A other \in SameConfigs(args.pcfg) :
            make_pattern(args.rows, args.cols, other) = ret.val

\* A matrix generated with weave_step 0 and broken_block 0 on a grid with
\* several rows and columns.
C2_Witness ==
    /\ pc = "done" /\ fn = "make_pattern"
    /\ args.rows > 2 /\ args.cols > 2
    /\ args.pcfg.weave_step = 0
    /\ args.pcfg.broken_block = <<0>>
    /\ args.pcfg.weave_over < 1
    /\ NormAxes(args.pcfg.broken_axes) = Both
    /\ ret.kind = "ok"

Baseline(pcfg) == [pcfg EXCEPT !.broken_block = <<>>]

MultiBlock ==
    /\ pc = "done" /\ fn = "make_pattern"
    /\ Enabled(args.pcfg)
    /\ NormAxes(args.pcfg.broken_axes) = Both
    /\ args.rows > args.pcfg.broken_block[1]
    /\ args.cols > args.pcfg.broken_block[1]

\* C3 as stated: for every over, under, step and positive broken_block b with
\* axes "both", the matrix on a grid of more than b rows and more than b
\* columns differs from the matrix of the same parameters with broken twill
\* disabled.
C3_BrokenDiffersAlways ==
    MultiBlock => ret.val # make_pattern(args.rows, args.cols, Baseline(args.pcfg))

\* C3 amended: the same for over = 3, under = 1 and an odd step (after
\* normalization), every positive b and every grid of more than b rows and
\* more than b columns.
C3_BrokenDiffersThreeOne ==
    (MultiBlock /\ OverOf(args.pcfg) = 3 /\ UnderOf(args.pcfg) = 1
                /\ StepOf(args.pcfg) % 2 = 1)
        => ret.val # make_pattern(args.rows, args.cols, Baseline(args.pcfg))

\* A 3/1 twill broken in blocks of 2 on a grid of more than two rows and
\* columns.
C3_Witness ==
    /\ MultiBlock
    /\ OverOf(args.pcfg) = 3 /\ UnderOf(args.pcfg) = 1
    /\ StepOf(args.pcfg) % 2 = 1
    /\ args.pcfg.broken_block[1] = 2
    /\ ret.kind = "ok"

ColumnFree(pcfg) ==
    \/ ~Enabled(pcfg)
    \/ NormAxes(pcfg.broken_axes) = <<"r", "o", "w", "s">>

TrueCells(row, first, n) == Cardinality({c \in first..(first + n - 1) : row[c]})

\* C10: when the direction does not depend on the column (broken twill
\* disabled, or enabled with axes "rows"), every row of the matrix is
\* periodic in the column with period over + under, and every window of
\* over + under consecutive columns of a row holds exactly over true cells
\* (and so under false cells).
C10_RowWindows ==
    (pc = "done" /\ fn = "make_pattern" /\ ColumnFree(args.pcfg)) =>
        LET period == PeriodOf(args.pcfg) IN
        \A r \in 1..args.rows :
            /\ \A c \in 1..(args.cols - period) :
                  ret.val[r][c] = ret.val[r][c + period]
            /\ \A c \in 1..(args.cols - period + 1) :
                  TrueCells(ret.val[r], c, period) = OverOf(args.pcfg)

\* A matrix with broken twill on the rows axis, several rows, and rows long
\* enough to hold more than one window and one full period of repetition.
C10_Witness ==
    /\ pc = "done" /\ fn = "make_pattern"
    /\ Enabled(args.pcfg)
    /\ NormAxes(args.pcfg.broken_axes) = <<"r", "o", "w", "s">>
    /\ args.rows > args.pcfg.broken_block[1]
    /\ args.cols > PeriodOf(args.pcfg) + 1
    /\ OverOf(args.pcfg) > 1
    /\ ret.kind = "ok"

(***************************************************************************)
(* Rendering: render_weave (lines 180-268).  surface is the log of the     *)
(* calls render_weave makes on its collaborators, in order: the screen,    *)
(* the pens and shade.  An entry is <<name, colour>>, the colour being     *)
(* <<>> for the calls that take none.  Coordinates are not recorded.       *)
(***************************************************************************)
Call(name) == <<<<name, <<>>>>>>

ColorCall(name, color) == <<<<name, color>>>>

\* _setup_screen (lines 170-177), then lines 192-196
OpenSurface(bg) ==
    Call("Screen") \o Call("setup") \o ColorCall("bgcolor", bg) \o Call("title")
    \o Call("tracer") \o Call("Turtle") \o Call("speed") \o Call("hideturtle")

\* One grid line (lines 221-224 and 227-230)
GridLine == Call("penup") \o Call("goto") \o Call("pendown") \o Call("goto")

RECURSIVE Times(_, _)
Times(calls, n) == IF n <= 0 THEN <<>> ELSE calls \o Times(calls, n - 1)

\* lines 214-230
DrawGrid(rcfg, ccfg) ==
    IF rcfg.show_grid
    THEN Call("Turtle") \o Call("speed") \o ColorCall("pencolor", ccfg.grid) \o Call("width")
         \o Times(GridLine, rcfg.cols + 1) \o Times(GridLine, rcfg.rows + 1)
    ELSE <<>>

\* seg (lines 206-212) with goto (lines 201-204)
Seg(color) ==
    ColorCall("pencolor", color) \o Call("width")
    \o Call("penup") \o Call("goto") \o Call("pendown") \o Call("goto")

\* The calls of one crossing, given the outcomes of its two calls of shade:
\* a failing shade ends the drawing where it is called.
CellCalls(under, over, underBase, overBase) ==
    IF Raised(under)
    THEN [ret |-> under, calls |-> ColorCall("shade", underBase)]
    ELSE IF Raised(over)
    THEN [ret |-> over,
          calls |-> ColorCall("shade", underBase) \o Seg(under.val) \o Seg(under.val)
                    \o ColorCall("shade", overBase)]
    ELSE [ret |-> Ok(<<>>),
          calls |-> ColorCall("shade", underBase) \o Seg(under.val) \o Seg(under.val)
                    \o ColorCall("shade", overBase) \o Seg(over.val)]

\* One crossing (lines 249-264): the thread underneath is shaded by the
\* shadow factor and drawn in two segments, the thread on top by the
\* highlight factor and drawn in one.
DrawCell(warp_over, warp_col, weft_col, ccfg) ==
    CellCalls(shade(IF warp_over THEN weft_col ELSE warp_col, ccfg.shadow_factor),
              shade(IF warp_over THEN warp_col ELSE weft_col, ccfg.highlight_factor),
              IF warp_over THEN weft_col ELSE warp_col,
              IF warp_over THEN warp_col ELSE weft_col)

\* The calls made so far followed by those of one more step.
After(calls, step) == [ret |-> step.ret, calls |-> calls \o step.calls]

\* The loops of lines 235-264 from the 0-based cell (r, c) on, row by row.
\* pattern[r][c] raises IndexError in a row that is too short.
RECURSIVE DrawCells(_, _, _, _, _)

\* The rest of the loops after the crossing whose outcome is cell: nothing
\* when it raised, the cells from (r, c) on otherwise.
Then(cell, r, c, pattern, rcfg, ccfg) ==
    IF Raised(cell.ret) THEN cell
    ELSE After(cell.calls, DrawCells(r, c, pattern, rcfg, ccfg))

DrawCells(r, c, pattern, rcfg, ccfg) ==
    IF r >= rcfg.rows THEN [ret |-> Ok(<<>>), calls |-> <<>>]
    ELSE IF c >= rcfg.cols THEN DrawCells(r + 1, 0, pattern, rcfg, ccfg)
    ELSE IF c + 1 > Len(pattern[r + 1])
    THEN [ret |-> Raise("IndexError", "list index out of range"), calls |-> <<>>]
    ELSE Then(DrawCell(pattern[r + 1][c + 1], ccfg.warp_thread_colors[c + 1],
                       ccfg.weft_thread_colors[r + 1], ccfg),
              r, c + 1, pattern, rcfg, ccfg)

\* lines 266-268
CloseSurface == Call("tracer") \o Call("update") \o Call("mainloop")

\* The end of render_weave: the closing calls unless the drawing raised.
Finish(drawn) ==
    IF Raised(drawn.ret) THEN drawn
    ELSE [ret |-> Ok(<<>>), calls |-> drawn.calls \o CloseSurface]

render_weave(pattern, rcfg, ccfg) ==
    IF Len(pattern) # rcfg.rows \/ (pattern # <<>> /\ Len(pattern[1]) # rcfg.cols)
    THEN [ret |-> Raise("ValueError", "Pattern dimensions must match RenderConfig rows/cols"),
          calls |-> <<>>]
    ELSE IF Len(ccfg.warp_thread_colors) # rcfg.cols
    THEN [ret |-> Raise("ValueError", "warp_thread_colors length must equal cols"),
          calls |-> <<>>]
    ELSE IF Len(ccfg.weft_thread_colors) # rcfg.rows
    THEN [ret |-> Raise("ValueError", "weft_thread_colors length must equal rows"),
          calls |-> <<>>]
    ELSE Finish(After(OpenSurface(ccfg.background) \o DrawGrid(rcfg, ccfg),
                      DrawCells(0, 0, pattern, rcfg, ccfg)))

(***************************************************************************)
(* Calls of the renderer.  The colours are those of the main block (lines  *)
(* 285-286, 164-165), the shadow factor its 0.75 (line 294); the highlight *)
(* factor is 1.25, which floats hold exactly.                              *)
(***************************************************************************)
MaxGridRows == 2

MaxGridCols == 2

DARK == <<"#", "1", "c", "7", "b", "d", "a">>

LIGHT == <<"#", "f", "8", "f", "a", "f", "c">>

Background == <<"#", "f", "7", "f", "a", "f", "c">>

GridColor == <<"#", "e", "2", "e", "8", "f", "0">>

\* The weaves the cells of a drawn pattern are taken from: plain weave and
\* warp over everywhere.
Weaves == {"plain", "warp"}

WeaveCell(weave, r, c) == IF weave = "plain" THEN (r + c) % 2 = 0 ELSE TRUE

\* A list of rows of the given lengths, not necessarily of one length.
PatternOf(weave, lens) ==
    [r \in 1..Len(lens) |-> [c \in 1..lens[r] |-> WeaveCell(weave, r, c)]]

InitRender ==
    /\ fn = "render_weave"
    /\ \E rows \in 0..MaxGridRows, cols \in 0..MaxGridCols, grid \in BOOLEAN :
         \E n \in 0..(MaxGridRows + 1) : \E lens \in [1..n -> 0..(MaxGridCols + 1)] :
           \E weave \in Weaves, nwarp \in 0..(MaxGridCols + 1), nweft \in 0..(MaxGridRows + 1) :
              args = [pattern |-> PatternOf(weave, lens),
                      rcfg |-> [rows |-> rows, cols |-> cols, show_grid |-> grid],
                      ccfg |-> [warp_thread_colors |-> Repeat(DARK, nwarp),
                                weft_thread_colors |-> Repeat(LIGHT, nweft),
                                background |-> Background, grid |-> GridColor,
                                highlight_factor |-> <<5, 4>>,
                                shadow_factor |-> <<3, 4>>]]
    /\ pc = "call"
    /\ ret = NoRet
    /\ surface = <<>>

Outcome(out) ==
    /\ ret' = out.ret
    /\ surface' = out.calls

RenderWeave ==
    /\ pc = "call" /\ fn = "render_weave"
    /\ Outcome(render_weave(args.pattern, args.rcfg, args.ccfg))
    /\ pc' = "done"
    /\ UNCHANGED <<fn, args>>

NextRender == RenderWeave

SpecRender == InitRender /\ [][NextRender]_vars

(***************************************************************************)
(* Claim about the renderer.                                               *)
(***************************************************************************)
IsMatrix(pattern, rows, cols) ==
    /\ Len(pattern) = rows
    /\ \A r \in 1..Len(pattern) : Len(pattern[r]) = cols

\* C9: render_weave rejects with an invalid-argument error, before any
\* colour computation and before any call on the screen or pen, every request
\* whose pattern is not a matrix of rcfg.rows rows and rcfg.cols columns or
\* whose warp or weft colour list has not the length of cols or rows.
C9_RejectsBeforeDrawing ==
    (pc = "done" /\ fn = "render_weave"
        /\ \/ ~IsMatrix(args.pattern, args.rcfg.rows, args.rcfg.cols)
           \/ Len(args.ccfg.warp_thread_colors) # args.rcfg.cols
           \/ Len(args.ccfg.weft_thread_colors) # args.rcfg.rows)
        => /\ ret.kind = "ValueError"
           /\ surface = <<>>

====
